---- MODULE Spec2Model ----
(***************************************************************************)
(* Job coordination of the remote-worker variant (src/server/app.py) and   *)
(* the job lifecycle of the local-browser variant (src/app.py).            *)
(*                                                                         *)
(* The server is run by gevent's WSGIServer after monkey.patch_all(), so   *)
(* handlers are greenlets that are switched only at blocking calls:        *)
(* sock.receive(), client.send() and Queue.get().  Each action below is    *)
(* the code executed between two such calls; a "with response_lock" block  *)
(* needs the lock free when it is entered and releases it when it ends.    *)
(* Spec is the remote-worker variant, SpecLocal the local-browser variant; *)
(* each leaves the variables of the other unchanged.  SpecEcho is Spec     *)
(* with the messages that are JSON but not objects.  SpecExtract, SpecInfo *)
(* and SpecShot apply extract_from_meta_tags, extract_product_info and the *)
(* result loop of capture_screenshot to inputs drawn from bounded sets.    *)
(***************************************************************************)
EXTENDS Integers, Sequences, FiniteSets, TLC

\* ---------------------------------------------------------------- bounds
MaxJobs == 2        \* HTTP requests (/fetch, /screenshot) submitted
MaxSocks == 2       \* websocket connections opened on /ws
MaxReplies == 2     \* worker messages put in a queue during a run
TimeUnit == 300     \* seconds that one Tick stands for
MaxTasks == 2       \* requests handled by the local-browser variant
MaxIgnored == 1     \* messages that are not JSON objects and raise nothing
MaxResults == 2     \* results in the reply of a worker to captureScreenshot
MaxActive == 3      \* extractors other than the meta tags one that raise or
                    \*   return a result for the page

\* ------------------------------------------------------ program constants
Timeout == 300      \* response_queue.get(timeout=300)

WaitTicks == Timeout \div TimeUnit

Jobs == 1 .. MaxJobs
Socks == 1 .. MaxSocks

\* request ids are uuid4 strings; the n-th uuid drawn is written n, and 0
\* stands for "no request_id" (key absent from the message, no id drawn yet)
NoId == 0
IdSpace == 1 .. MaxJobs
\* a request_id that no dispatch of the run has drawn
UnknownId == MaxJobs + 1
\* a request_id that is a JSON array or object: a list or dict in Python,
\* for which "request_id in response_queues" raises TypeError (unhashable)
UnhashableId == MaxJobs + 2

\* value of the "results" key of a worker message; NoResults: key absent
Payloads == {"p1", "p2"}
NoResults == "none"

\* a message received on /ws that json.loads turns into a dict
Messages ==
    [request_id : IdSpace \cup {NoId, UnknownId, UnhashableId},
     results : Payloads \cup {NoResults}]

\* what json.loads returns for a text that is JSON but not an object; a
\* str is the sequence of its parts
NonObjects ==
    {[type |-> "null"], [type |-> "number"], [type |-> "boolean"]}
    \cup {[type |-> "array", items |-> i] :
             i \in {<<>>, <<"x">>, <<"request_id">>}}
    \cup {[type |-> "string", text |-> t] :
             t \in {<<>>, <<"x">>, <<"my ", "request_id", "!">>}}

Kinds == {"fetch", "screenshot"}

\* response_lock = threading.Lock(): not held, or held by the handler of a
\* job (j) or by the echo handler of a socket (HandlerOf(s))
Free == 0
HandlerOf(s) == MaxJobs + s

\* ------------------------------------------------------------- responses
NoResponse == [code |-> 0, body |-> ""]
NoUrls == [code |-> 400, body |-> "No URLs provided"]
NoClient == [code |-> 500, body |-> "No client available"]
TimedOut == [code |-> 504, body |-> "Request timed out"]
\* parsed_data["results"] raises KeyError, which "except queue.Empty" does
\* not catch: the handler ends with an exception after its finally block
Unhandled == [code |-> 500, body |-> "KeyError: 'results'"]

VARIABLES
    client_list,        \* sequence of sockets, in append order
    response_queues,    \* request id -> queue created by a dispatch
    response_lock,      \* holder of response_lock, Free when not held
    uuid_count,         \* number of uuid4 values drawn for request ids
    sock_state,         \* per socket: "new", "open", "closed", "ended"
    pc,                 \* per job: "idle", "send", "wait", "done"
    kind,               \* per job: endpoint that was called
    request_id,         \* per job: local request_id
    snapshot,           \* per job: the copy client_list[:] being iterated
    idx,                \* per job: position of the for loop in snapshot
    successful_send,    \* per job: local successful_send counter
    elapsed,            \* per job: ticks spent blocked in Queue.get
    result,             \* per job: response returned to the HTTP caller
    put_log,            \* history: per id, the messages put in its queue
    attempts,           \* history: per job, <<socket, sent>> of each send
    gets,               \* history: per job, number of messages taken by get
    ignored             \* history: number of messages that were not JSON
                        \*   objects and that echo handled without raising

\* the state of the local-browser variant (src/app.py)
VARIABLES
    step,               \* per task: await the handler is suspended at
    endpoint,           \* per task: "/fetch" or "/screenshot"
    request,            \* per task: the URLRequest of the call
    url,                \* per task: local url, request.url at first
    tab,                \* per task: local tab, NoTab for None
    readiness,          \* history: per task, the values of page_loaded
    pending,            \* per task: value returned or exception raised by
                        \*   the try statement, kept while finally runs
    fault,              \* history: per task, exception raised in the try body
    response,           \* per task: what the caller of the handler gets
    pages,              \* per page of the browser: "none", "open", "closed"
    closes,             \* history: per task, outcome of each tab.close()
    named               \* number of uuid4 values drawn for file names

servervars == <<client_list, response_queues, response_lock, uuid_count,
                sock_state, pc, kind, request_id, snapshot, idx,
                successful_send, elapsed, result, put_log, attempts, gets,
                ignored>>

localvars == <<step, endpoint, request, url, tab, readiness, pending, fault, response,
               pages, closes, named>>

\* the extractors of src/server/extractors.py, applied to one parsed page
VARIABLES
    page,               \* the nodes that parser.css_first finds, and url
    extracted           \* what the extractor returned or raised

extractvars == <<page, extracted>>

\* capture_screenshot from the reply it took from its queue to its response
VARIABLES
    shot_reply,         \* parsed_data["results"]
    shot_response       \* the body returned, or the exception raised

shotvars == <<shot_reply, shot_response>>

\* extract_product_info applied to the page
VARIABLES
    outcomes,           \* per extractor, what it returns or raises for page
    info                \* what extract_product_info returned or raised

infovars == <<outcomes, info>>

\* the variables of the specifications of pure functions
purevars == <<extractvars, shotvars, infovars>>

vars == <<servervars, localvars, purevars>>

jobvars == <<pc, kind, request_id, snapshot, idx, successful_send, elapsed,
             result, attempts, gets>>

\* ---------------------------------------------------------------- helpers
Range(s) == {s[i] : i \in 1 .. Len(s)}

RECURSIVE RemoveFirst(_, _)
\* list.remove(c): delete the first element equal to c
RemoveFirst(s, c) ==
    IF s = <<>> THEN <<>>
    ELSE IF Head(s) = c THEN Tail(s)
    ELSE <<Head(s)>> \o RemoveFirst(Tail(s), c)

KeepClient(list, c) == list

RemoveOther(list, c) == IF list = <<>> THEN list ELSE Tail(list)
\* if client in client_list: client_list.remove(client)
RemoveClient(list, c) == IF c \in Range(list) THEN RemoveFirst(list, c) ELSE list

Reregister(list, c) == IF c \in Range(list) THEN list ELSE Append(list, c)
\* the try body of echo has no statement on client_list: a message that is
\* handled without raising leaves the list as it is, whether the socket is
\* still in it or not
AfterReceive(list, c) == list

ReusedRequestId(n) == 1
\* str(uuid.uuid4()): an id that no earlier call returned
NewRequestId(n) == n + 1

NoRegister(rq, id, j) == rq
\* with response_lock: response_queues[request_id] = queue.Queue()
Register(rq, id, j) ==
    [k \in DOMAIN rq \cup {id} |->
        IF k = id THEN [owner |-> j, items |-> <<>>] ELSE rq[k]]

KeepEntry(rq, id) == rq
\* with response_lock: if request_id in response_queues: del ...
Unregister(rq, id) == [k \in DOMAIN rq \ {id} |-> rq[k]]

DeliverCreating(rq, m) ==
    IF m.request_id = NoId THEN rq
    ELSE [k \in DOMAIN rq \cup {m.request_id} |->
            IF k = m.request_id
            THEN [owner |-> IF k \in DOMAIN rq THEN rq[k].owner ELSE 1,
                  items |-> IF k \in DOMAIN rq THEN Append(rq[k].items, m) ELSE <<m>>]
            ELSE rq[k]]
DeliverToAll(rq, m) ==
    IF m.request_id \in DOMAIN rq
    THEN [k \in DOMAIN rq |-> [rq[k] EXCEPT !.items = Append(@, m)]]
    ELSE rq
\* if "request_id" in parsed_data: ... if request_id in response_queues:
\*     response_queues[request_id].put(parsed_data)
Deliver(rq, m) ==
    IF m.request_id # NoId /\ m.request_id \in DOMAIN rq
    THEN [rq EXCEPT ![m.request_id].items = Append(@, m)]
    ELSE rq

QueueGetLast(items) == items[Len(items)]
\* Queue.get(): the oldest message of the queue
QueueGet(items) == Head(items)

TimeoutAnyTime(e) == TRUE
\* Queue.get(timeout=300) raises Empty once the budget has been waited out
TimeoutDue(e) == e = WaitTicks

\* the response built from the message taken from the queue:
\* jsonify(parsed_data["results"]) or jsonify({"screenshots": results})
Outcome(k, parsed_data) ==
    IF parsed_data.results = NoResults THEN Unhandled
    ELSE [code |-> 200,
          body |-> IF k = "screenshot"
                   THEN "screenshots: " \o parsed_data.results
                   ELSE parsed_data.results]

\* "request_id" in parsed_data, for a parsed_data that is a list (is an
\* element) or a str (is a substring); the callers exclude the other types
HasRequestId(parsed_data) ==
    IF parsed_data.type = "array"
    THEN \E i \in 1 .. Len(parsed_data.items) : parsed_data.items[i] = "request_id"
    ELSE \E i \in 1 .. Len(parsed_data.text) : parsed_data.text[i] = "request_id"

NeverRaising(parsed_data) == FALSE
\* the try body of echo raises TypeError for a parsed_data that is not a
\* dict: None, a number or a bool is not iterable ('"request_id" in
\* parsed_data'); a list or a str in which "request_id" is found cannot be
\* indexed by a str (parsed_data["request_id"])
Raising(parsed_data) ==
    IF parsed_data.type \in {"array", "string"}
    THEN HasRequestId(parsed_data)
    ELSE TRUE

\* the statements that change client_list: append in echo, remove in the
\* except branch of echo, remove in the except branch of the fan-out loop
RegistrySites == {"echo_append", "echo_remove", "send_remove"}
\* the statements that read or change response_queues
TableSites == {"register", "put", "delete_no_client", "lookup", "delete_finally"}
\* the statements that are inside a "with response_lock:" block
UnderLock == TableSites

LockKept(holder) == holder
\* the end of a "with response_lock:" block releases the lock
Release(holder) == Free

LoopClientFirst(copy, live, i) == copy[1]

\* "for client in client_list": the loop reads the list being modified
LoopClientLive(copy, live, i) == IF i <= Len(live) THEN live[i] ELSE copy[i]
\* "for client in client_list[:]": the i-th client of the copy
LoopClient(copy, live, i) == copy[i]

NoneSentNever(sent) == FALSE
\* if successful_send == 0:
NoneSent(sent) == sent = 0

\* ------------------------------------------- local-browser variant values
Tasks == 1 .. MaxTasks
Endpoints == {"/fetch", "/screenshot"}
Urls == {"u1", "u2"}
\* what document.documentElement.outerHTML evaluates to
Htmls == {"h1", "h2"}
\* tab = None
NoTab == 0

\* str(e) of the exceptions that the awaited browser calls can raise
GetFailed == "browser.get failed"
IsClosedFailed == "tab.is_closed failed"
EvaluateFailed == "tab.evaluate failed"
ScreenshotFailed == "tab.save_screenshot failed"
CloseFailed == "tab.close failed"
NoFault == ""

\* the handler has not returned
NotReturned == [returned |-> FALSE]
\* asyncio.CancelledError is not an Exception: no except clause of the
\* handlers catches it, and it leaves the handler
Cancelled == [raised |-> "CancelledError"]

\* f"screenshot_{str(uuid4()).split('-')[0]}.png" for the n-th uuid drawn
FileName(n) == <<"screenshot_", n, ".png">>

\* the url of the result is the local url, which the first evaluate has set
\* to the location of the page
ReportedUrl(requested, href) == href

\* the return statements at the end of the try bodies
FetchSuccess(u, source_code) ==
    [status_code |-> 200, url |-> u, html |-> source_code]
ScreenshotSuccess(file_name) ==
    [message |-> "Screenshot saved", path |-> file_name]

\* return {"error": "Tab was closed before ..."}
TabClosed(e) ==
    [error |-> IF e = "/fetch"
               THEN "Tab was closed before content could be extracted"
               ELSE "Tab was closed before screenshot could be taken"]

Reraised(msg) == [raised |-> msg]
\* except Exception as e: return {"error": str(e)}
ErrorResult(msg) == [error |-> msg]

\* lifespan starts one browser, which every request uses
PoolSize == 1

SharedTab(t) == 1
\* browser.get(url, new_tab=True): the browser opens a page of its own for
\* the call; page t is the one opened for task t
NewTab(t) == t

NeverClosed(state) == FALSE
\* tab.is_closed() in "if not tab or tab.is_closed(): return {"error": ...}"
TabIsClosed(state) == state # "open"

FatalReadiness(loaded) == IF loaded THEN "check" ELSE "close"
\* after wait_for_page_load_simple, whatever page_loaded is, the handler
\* goes on to "if not tab or tab.is_closed()"
AfterReadiness(loaded) == "check"

CleanupResult(value, close_raised) ==
    IF close_raised THEN [error |-> CloseFailed] ELSE value
\* finally: try: await tab.close() except Exception: print(...): the value
\* of the try statement is returned whether or not close raised
FinalResult(value, close_raised) == value

PageLeftOpen(state, raised, gone) == state
\* tab.close(): the page is closed when the call returns; when it raises the
\* page is closed (gone) or left as it was
PageAfterClose(state, raised, gone) ==
    IF raised /\ ~gone THEN state ELSE "closed"

\* ------------------------------------------------------ extractor values
\* a Python string is the sequence of its parts; "" is <<>>
StartsWith(str, prefix) ==
    /\ Len(str) >= Len(prefix)
    /\ SubSeq(str, 1, Len(prefix)) = prefix

\* a value that can be None (has is FALSE), or a local not yet assigned
NoValue == [has |-> FALSE, value |-> <<>>]
Value(v) == [has |-> TRUE, value |-> v]
\* the truth value of a str or None
Truthy(v) == v.has /\ v.value # <<>>

\* parser.css_first(...): no node, or a node with its "content" attribute
\* (None when missing) and its text()
NoNode == [found |-> FALSE, content |-> NoValue, text |-> <<>>]
Node(c, x) == [found |-> TRUE, content |-> c, text |-> x]

Nodes ==
    {NoNode} \cup
    {Node(c, x) : c \in {NoValue, Value(<<>>), Value(<<"c">>)},
                  x \in {<<>>, <<"t">>}}
ImageNodes ==
    {NoNode} \cup
    {Node(c, <<>>) :
        c \in {NoValue, Value(<<>>), Value(<<"http", "://cdn/i.png">>),
               Value(<<"/", "/", "cdn/i.png">>), Value(<<"/", "i.png">>),
               Value(<<"i.png">>)}}
AvailabilityNodes ==
    {NoNode} \cup
    {Node(c, <<>>) :
        c \in {NoValue, Value(<<>>), Value(<<"InStock">>), Value(<<"bogus">>)}}

\* url: scheme, "://", netloc, path
MainUrl == <<"https", "://", "shop.example", "/product">>

Pages ==
    [price : Nodes, currency : Nodes, title : Nodes, image : ImageNodes,
     availability : AvailabilityNodes, url : {MainUrl}]
EmptyPage ==
    [price |-> NoNode, currency |-> NoNode, title |-> NoNode,
     image |-> NoNode, availability |-> NoNode, url |-> MainUrl]

NotExtracted == [called |-> FALSE]
\* return None
NoneResult == [none |-> TRUE]
\* the function ends with an exception
Raises(exception) == [raised |-> exception]

\* node.attributes.get("content") or node.text()
ContentOrText(node) ==
    IF Truthy(node.content) THEN node.content.value ELSE node.text

\* format_resource_url(resource_url, main_url)
format_resource_url(resource_url, main_url) ==
    LET base_url == <<main_url[1], "://", main_url[3]>>
    IN IF resource_url = <<>> THEN <<>>
       ELSE IF StartsWith(resource_url, <<"http">>) THEN resource_url
       ELSE IF StartsWith(resource_url, <<"/", "/">>)
            THEN <<"https:">> \o resource_url
       ELSE IF StartsWith(resource_url, <<"/">>) THEN base_url \o resource_url
       ELSE base_url \o <<"/">> \o resource_url

\* availability_struct.get(availability, "N/A"), where availability is the
\* content attribute or, without one, the bound method node.text (no key)
AvailabilityOf(node) ==
    IF Truthy(node.content) /\ node.content.value = <<"InStock">>
    THEN <<"IN STOCK">>
    ELSE <<"N/A">>

\* extract_from_meta_tags(parser, url): title is assigned only when a title
\* node is found, and read when the result is built
extract_from_meta_tags(p) ==
    LET currency == IF p.currency.found THEN ContentOrText(p.currency) ELSE <<>>
        price == IF p.price.found THEN Value(ContentOrText(p.price)) ELSE NoValue
        title == IF p.title.found THEN Value(ContentOrText(p.title)) ELSE NoValue
        images == IF p.image.found
                  THEN <<format_resource_url(ContentOrText(p.image), p.url)>>
                  ELSE <<>>
    IN IF ~Truthy(price) THEN NoneResult
       ELSE IF ~title.has THEN Raises("UnboundLocalError")
       ELSE [source |-> "META TAGS",
             variations |->
                <<[name |-> title.value, variant_id |-> <<>>, sku |-> <<>>,
                   mpn |-> <<>>, upc |-> <<>>, price |-> price.value,
                   currency |-> currency, availability |-> <<>>,
                   images |-> images]>>]

\* ---------------------------------------------- extract_product_info values
\* the "source" of the results of the extractors, in the order of the list
\* "extractors"
ExtractorNames ==
    <<"LD+JSON", "Shopify Analytics", "META TAGS", "GSF Conversion Data",
      "BC Data", "WPM Data Layer", "GTM/GA4 Data Layer">>
Extractors == 1 .. Len(ExtractorNames)
\* the position of extract_from_meta_tags in the list
MetaTags == 3

\* a variation as the extractors build it, with name, currency and images
\* filled or empty; sku tells the extractors apart
Variation(e, filled) ==
    [name |-> IF filled THEN <<"n">> ELSE <<>>,
     variant_id |-> <<>>, sku |-> <<ExtractorNames[e]>>, mpn |-> <<>>,
     upc |-> <<>>, price |-> <<"1">>,
     currency |-> IF filled THEN <<"USD">> ELSE <<>>,
     availability |-> <<>>,
     images |-> IF filled THEN <<<<"http", "://cdn/v.png">>>> ELSE <<>>]

\* what an extractor other than extract_from_meta_tags does when it does not
\* return None: it raises, or returns a result with 0, 1 or 2 variations
Shapes == {"raises", "empty", "filled", "bare", "two"}
OutcomeOf(e, shape) ==
    IF shape = "raises" THEN Raises("Exception")
    ELSE [source |-> ExtractorNames[e],
          variations |->
             IF shape = "empty" THEN <<>>
             ELSE IF shape = "filled" THEN <<Variation(e, TRUE)>>
             ELSE IF shape = "bare" THEN <<Variation(e, FALSE)>>
             ELSE <<Variation(e, FALSE), Variation(e, TRUE)>>]

\* pages with or without each node that extract_product_info looks for;
\* title_tag is parser.css_first("title")
InfoPages ==
    [price : {NoNode, Node(Value(<<"c">>), <<>>)},
     currency : {NoNode, Node(Value(<<"c">>), <<>>)},
     title : {NoNode, Node(Value(<<"c">>), <<>>)},
     image : {NoNode, Node(Value(<<"/", "i.png">>), <<>>)},
     availability : {NoNode},
     title_tag : {NoNode, Node(NoValue, <<"t">>)},
     url : {MainUrl}]

IsResult(outcome) == "source" \in DOMAIN outcome

BeatsOrTies(count, highest_count) == count >= highest_count
\* len(result["variations"]) > highest_count
Beats(count, highest_count) == count > highest_count

RECURSIVE RunExtractors(_, _, _)
\* the loop over extractors, from extractor e on: acc holds results (the
\* list "results") and chosen, the position in results of the result whose
\* variations main_variants is (0: main_variants is still [])
RunExtractors(o, e, acc) ==
    IF e > Len(o) THEN acc
    ELSE IF ~IsResult(o[e]) THEN RunExtractors(o, e + 1, acc)
    ELSE LET highest_count ==
                 IF acc.chosen = 0 THEN 0
                 ELSE Len(acc.results[acc.chosen].variations)
             results == Append(acc.results, o[e])
         IN RunExtractors(o, e + 1,
                [results |-> results,
                 chosen |-> IF Beats(Len(o[e].variations), highest_count)
                            THEN Len(results) ELSE acc.chosen])

\* the title that the second loop reads when a variation has no name: the
\* local is assigned from the title meta tag, else from the title tag, and
\* is unbound when the page has neither
PageTitle(p) ==
    IF p.title.found THEN Value(ContentOrText(p.title))
    ELSE IF p.title_tag.found THEN Value(p.title_tag.text)
    ELSE NoValue

\* one pass of the second loop: images, name and currency of main_variant
\* are filled from the page when they are empty
Completed(main_variant, p) ==
    [main_variant EXCEPT
        !.images = IF @ = <<>> /\ p.image.found
                   THEN <<format_resource_url(ContentOrText(p.image), p.url)>>
                   ELSE @,
        !.name = IF @ = <<>> THEN PageTitle(p).value ELSE @,
        !.currency = IF @ = <<>> /\ p.currency.found
                     THEN ContentOrText(p.currency) ELSE @]

\* extract_product_info(parser, url), given what each extractor does for
\* the page.  main_variants is the list of the chosen result itself, so what
\* the second loop fills in is seen in "sources" too
extract_product_info(p, o) ==
    LET run == RunExtractors(o, 1, [results |-> <<>>, chosen |-> 0])
        main_variants ==
            IF run.chosen = 0 THEN <<>>
            ELSE run.results[run.chosen].variations
        completed ==
            [i \in 1 .. Len(main_variants) |-> Completed(main_variants[i], p)]
    IN IF /\ \E i \in 1 .. Len(main_variants) : main_variants[i].name = <<>>
          /\ ~PageTitle(p).has
       THEN Raises("UnboundLocalError")
       ELSE [variants |-> completed,
             sources |-> [i \in 1 .. Len(run.results) |->
                            IF i = run.chosen
                            THEN [run.results[i] EXCEPT !.variations = completed]
                            ELSE run.results[i]]]

\* ------------------------------------------------- screenshot reply values
\* a screenshot is a data URL; screenshot_data.split(",") gives its parts.
\* The second part is the base64 text of a PNG image, or is not one
\* (b64decode or Image.open raises), or is missing (IndexError)
GoodData == <<"data:image/png;base64", "PNG">>
BadData == <<"data:image/png;base64", "junk">>
NoComma == <<"junk">>

\* the values of the keys "screenshots" and "dimensions" of a result
ScreenshotLists ==
    {<<>>, <<GoodData>>, <<BadData>>, <<NoComma>>, <<GoodData, GoodData>>,
     <<GoodData, BadData>>}
Dimensions == {[width |-> 0, height |-> 0], [width |-> 800, height |-> 1200]}
\* the key "dimensions" is missing
NoDimensions == [has |-> FALSE, value |-> [width |-> 0, height |-> 0]]

\* a result of the reply: a dict in which each key is present or not
ShotResults ==
    [url : {NoValue, Value(<<"u1">>), Value(<<"u2">>)},
     error : {NoValue, Value(<<"e">>)},
     screenshots : {NoValue} \cup {Value(l) : l \in ScreenshotLists},
     dimensions : {NoDimensions} \cup {Value(d) : d \in Dimensions}]

RECURSIVE SeqsUpTo(_, _)
SeqsUpTo(S, n) ==
    IF n = 0 THEN {<<>>}
    ELSE LET shorter == SeqsUpTo(S, n - 1)
         IN shorter \cup {Append(q, x) : q \in {r \in shorter : Len(r) = n - 1},
                                         x \in S}

ShotReplies == SeqsUpTo(ShotResults, MaxResults)

NotProcessed == [called |-> FALSE]

\* Image.open(io.BytesIO(base64.b64decode(screenshot_data.split(",")[1])))
Decode(screenshot_data) ==
    IF Len(screenshot_data) < 2 THEN Raises("IndexError")
    ELSE IF screenshot_data[2] # "PNG" THEN Raises("UnidentifiedImageError")
    ELSE [image |-> "segment"]

RECURSIVE FirstRaise(_)
\* the exception of the first screenshot of the list that does not decode
FirstRaise(screenshots) ==
    IF screenshots = <<>> THEN NoneResult
    ELSE IF "raised" \in DOMAIN Decode(Head(screenshots))
         THEN Decode(Head(screenshots))
         ELSE FirstRaise(Tail(screenshots))

\* process_screenshot(result): None without screenshots; the only or the
\* first screenshot decoded when there is one or when the dimensions are
\* missing or zero; otherwise every screenshot decoded and pasted
process_screenshot(shot) ==
    IF ~shot.screenshots.has \/ shot.screenshots.value = <<>> THEN NoneResult
    ELSE LET screenshots == shot.screenshots.value
             full_width == IF shot.dimensions.has
                           THEN shot.dimensions.value.width ELSE 0
             full_height == IF shot.dimensions.has
                            THEN shot.dimensions.value.height ELSE 0
         IN IF Len(screenshots) = 1 \/ full_width = 0 \/ full_height = 0
            THEN Decode(screenshots[1])
            ELSE IF FirstRaise(screenshots) # NoneResult
                 THEN FirstRaise(screenshots)
                 ELSE [image |-> "stitched"]

\* f"screenshot_{timestamp}_{uuid.uuid4().hex[:8]}.png", for the n-th uuid
ShotFileName(n) == <<"screenshot_", n, ".png">>

\* the entry appended for one result in the loop of capture_screenshot;
\* result["url"] and result["dimensions"] raise KeyError for a missing key
ShotEntry(shot, n) ==
    IF ~shot.url.has THEN
        IF ~shot.error.has /\ "raised" \in DOMAIN process_screenshot(shot)
        THEN process_screenshot(shot)
        ELSE Raises("KeyError")
    ELSE IF shot.error.has
    THEN [url |-> shot.url.value, error |-> shot.error.value]
    ELSE LET screenshot_image == process_screenshot(shot)
         IN IF "raised" \in DOMAIN screenshot_image THEN screenshot_image
            ELSE IF screenshot_image = NoneResult
            THEN [url |-> shot.url.value, error |-> <<"Failed to process screenshot">>]
            ELSE IF ~shot.dimensions.has THEN Raises("KeyError")
            ELSE [url |-> shot.url.value, filename |-> ShotFileName(n),
                  path |-> <<"screenshots/">> \o ShotFileName(n),
                  dimensions |-> shot.dimensions.value]

RECURSIVE ShotEntries(_, _, _)
\* the for loop over parsed_data["results"]: results so far, names drawn so
\* far, results still to process; an exception ends the loop and the handler
ShotEntries(results, n, rest) ==
    IF rest = <<>> THEN [screenshots |-> results]
    ELSE LET entry == ShotEntry(Head(rest), n + 1)
         IN IF "raised" \in DOMAIN entry THEN entry
            ELSE ShotEntries(Append(results, entry),
                             IF "filename" \in DOMAIN entry THEN n + 1 ELSE n,
                             Tail(rest))

\* ------------------------------------------------------------------- Init
InitHandlers ==
    /\ client_list = <<>>
    /\ response_queues = <<>>
    /\ response_lock = Free
    /\ uuid_count = 0
    /\ sock_state = [s \in Socks |-> "new"]
    /\ pc = [j \in Jobs |-> "idle"]
    /\ kind = [j \in Jobs |-> "fetch"]
    /\ request_id = [j \in Jobs |-> NoId]
    /\ snapshot = [j \in Jobs |-> <<>>]
    /\ idx = [j \in Jobs |-> 0]
    /\ successful_send = [j \in Jobs |-> 0]
    /\ elapsed = [j \in Jobs |-> 0]
    /\ result = [j \in Jobs |-> NoResponse]
    /\ put_log = [i \in IdSpace |-> <<>>]
    /\ attempts = [j \in Jobs |-> <<>>]
    /\ gets = [j \in Jobs |-> 0]
    /\ ignored = 0
    /\ step = [t \in Tasks |-> "idle"]
    /\ endpoint = [t \in Tasks |-> "/fetch"]
    /\ request = [t \in Tasks |-> [url |-> "u1"]]
    /\ url = [t \in Tasks |-> "u1"]
    /\ tab = [t \in Tasks |-> NoTab]
    /\ readiness = [t \in Tasks |-> <<>>]
    /\ pending = [t \in Tasks |-> NotReturned]
    /\ fault = [t \in Tasks |-> NoFault]
    /\ response = [t \in Tasks |-> NotReturned]
    /\ pages = [t \in Tasks |-> "none"]
    /\ closes = [t \in Tasks |-> <<>>]
    /\ named = 0

\* no page has been parsed, no reply has been taken
IdleExtract ==
    /\ page = EmptyPage
    /\ extracted = NotExtracted

IdleShot ==
    /\ shot_reply = <<>>
    /\ shot_response = NotProcessed

IdleInfo ==
    /\ outcomes = [e \in Extractors |-> NoneResult]
    /\ info = NotExtracted

Init ==
    /\ InitHandlers
    /\ IdleExtract
    /\ IdleShot
    /\ IdleInfo

RECURSIVE SumLen(_, _)
SumLen(log, ids) ==
    IF ids = {} THEN 0
    ELSE LET i == CHOOSE x \in ids : TRUE
         IN Len(log[i]) + SumLen(log, ids \ {i})

\* number of worker messages put in a queue so far
Delivered == SumLen(put_log, IdSpace)

\* ------------------------------------------------------- websocket handler
\* echo: a worker connects; client_list.append(sock), then sock.receive()
Connect(s) ==
    /\ sock_state[s] = "new"
    /\ s > 1 => sock_state[s - 1] # "new"     \* socket s is the s-th connection
    /\ sock_state' = [sock_state EXCEPT ![s] = "open"]
    /\ client_list' = Append(client_list, s)
    /\ UNCHANGED <<response_queues, response_lock, uuid_count, put_log>>
    /\ UNCHANGED jobvars
    /\ UNCHANGED <<ignored, localvars, purevars>>

\* the peer closes its end; the handler is still blocked in sock.receive()
Disconnect(s) ==
    /\ sock_state[s] = "open"
    /\ sock_state' = [sock_state EXCEPT ![s] = "closed"]
    /\ UNCHANGED <<client_list, response_queues, response_lock, uuid_count,
                   put_log>>
    /\ UNCHANGED jobvars
    /\ UNCHANGED <<ignored, localvars, purevars>>

\* the request ids that the peer of socket s can put in a message: uuid4
\* values are not guessable, so those of the jobs that were sent to s
\* (a send that raised may still have reached the peer)
Knows(s) ==
    {request_id[j] : j \in {k \in Jobs : \E i \in 1 .. Len(attempts[k]) :
                                            attempts[k][i][1] = s}}

\* echo: sock.receive() returns a JSON object.  The matching message is put
\* in its queue and the loop goes back to sock.receive(); the lookup of an
\* unhashable request_id raises inside the try block, which removes the
\* socket and leaves the loop
EchoReceive(s, m) ==
    /\ sock_state[s] = "open"
    /\ UNCHANGED uuid_count
    /\ UNCHANGED jobvars
    /\ UNCHANGED <<ignored, localvars, purevars>>
    /\ m.request_id \in Knows(s) \cup {NoId, UnknownId, UnhashableId}
    /\ IF m.request_id = NoId
       THEN UNCHANGED response_lock
       ELSE /\ response_lock = Free
            /\ response_lock' = Release(HandlerOf(s))
    /\ IF m.request_id = UnhashableId
       THEN /\ client_list' = RemoveClient(client_list, s)
            /\ sock_state' = [sock_state EXCEPT ![s] = "ended"]
            /\ UNCHANGED <<response_queues, put_log>>
       ELSE /\ client_list' = AfterReceive(client_list, s)
            /\ UNCHANGED sock_state
            /\ m.request_id \in DOMAIN response_queues => Delivered < MaxReplies
            /\ response_queues' = Deliver(response_queues, m)
            /\ put_log' =
                  IF m.request_id \in DOMAIN response_queues
                  THEN [put_log EXCEPT ![m.request_id] = Append(@, m)]
                  ELSE put_log

\* echo: sock.receive() or json.loads raises; remove the socket and break
EchoError(s) ==
    /\ sock_state[s] \in {"open", "closed"}
    /\ client_list' = RemoveClient(client_list, s)
    /\ sock_state' = [sock_state EXCEPT ![s] = "ended"]
    /\ UNCHANGED <<response_queues, response_lock, uuid_count, put_log>>
    /\ UNCHANGED jobvars
    /\ UNCHANGED <<ignored, localvars, purevars>>

\* echo: sock.receive() returns a text that json.loads turns into a value
\* that is not a dict.  Either the try body raises, and the except branch
\* removes the socket and breaks, or nothing is raised and the loop goes
\* back to sock.receive() with nothing changed
EchoNonObject(s, parsed_data) ==
    /\ sock_state[s] = "open"
    /\ IF Raising(parsed_data)
       THEN /\ client_list' = RemoveClient(client_list, s)
            /\ sock_state' = [sock_state EXCEPT ![s] = "ended"]
            /\ UNCHANGED ignored
       ELSE /\ ignored < MaxIgnored
            /\ ignored' = ignored + 1
            /\ UNCHANGED <<client_list, sock_state>>
    /\ UNCHANGED <<response_queues, response_lock, uuid_count, put_log>>
    /\ UNCHANGED jobvars
    /\ UNCHANGED <<localvars, purevars>>

\* ------------------------------------------------------------ HTTP handlers
\* job j is the j-th request submitted
Submitted(j) ==
    /\ pc[j] = "idle"
    /\ j > 1 => pc[j - 1] # "idle"

\* capture_screenshot: "if not urls: return ... 400"
ScreenshotNoUrls(j) ==
    /\ Submitted(j)
    /\ pc' = [pc EXCEPT ![j] = "done"]
    /\ result' = [result EXCEPT ![j] = NoUrls]
    /\ UNCHANGED <<client_list, response_queues, response_lock, uuid_count,
                   sock_state, kind, request_id, snapshot, idx,
                   successful_send, elapsed, put_log, attempts, gets>>
    /\ UNCHANGED <<ignored, localvars, purevars>>

\* extract_data / capture_screenshot up to the first client.send(): draw the
\* request id, register the queue, copy client_list.  With an empty copy the
\* handler runs through to "No client available" without blocking.
StartDispatch(j, k) ==
    /\ Submitted(j)
    /\ uuid_count < MaxJobs
    /\ response_lock = Free
    /\ response_lock' = Release(j)
    /\ LET id == NewRequestId(uuid_count)
           rq == Register(response_queues, id, j)
       IN /\ uuid_count' = uuid_count + 1
          /\ request_id' = [request_id EXCEPT ![j] = id]
          /\ IF client_list = <<>>
             THEN /\ response_queues' = Unregister(rq, id)
                  /\ pc' = [pc EXCEPT ![j] = "done"]
                  /\ result' = [result EXCEPT ![j] = NoClient]
                  /\ UNCHANGED <<kind, snapshot, idx>>
             ELSE /\ response_queues' = rq
                  /\ pc' = [pc EXCEPT ![j] = "send"]
                  /\ kind' = [kind EXCEPT ![j] = k]
                  /\ snapshot' = [snapshot EXCEPT ![j] = client_list]
                  /\ idx' = [idx EXCEPT ![j] = 1]
                  /\ result' = result
    /\ UNCHANGED <<client_list, sock_state, successful_send, elapsed,
                   put_log, attempts, gets>>
    /\ UNCHANGED <<ignored, localvars, purevars>>

\* the handler returns: its arguments and local variables go out of scope
Return(j) ==
    /\ kind' = [kind EXCEPT ![j] = "fetch"]
    /\ snapshot' = [snapshot EXCEPT ![j] = <<>>]
    /\ idx' = [idx EXCEPT ![j] = 0]
    /\ successful_send' = [successful_send EXCEPT ![j] = 0]
    /\ elapsed' = [elapsed EXCEPT ![j] = 0]

\* one iteration of "for client in client_list[:]": client.send succeeds or
\* raises; after the last one, either "No client available" or the wait
SendStep(j, ok) ==
    /\ pc[j] = "send"
    /\ IF idx[j] = Len(snapshot[j])
       THEN /\ response_lock = Free
            /\ response_lock' = Release(j)
       ELSE UNCHANGED response_lock
    /\ LET client == LoopClient(snapshot[j], client_list, idx[j])
           sent == successful_send[j] + (IF ok THEN 1 ELSE 0)
       IN /\ sock_state[client] # "open" => ~ok
          /\ client_list' = IF ok THEN client_list
                            ELSE RemoveClient(client_list, client)
          /\ attempts' = [attempts EXCEPT ![j] = Append(@, <<client, ok>>)]
          /\ IF idx[j] = Len(snapshot[j]) /\ NoneSent(sent)
             THEN /\ response_queues' =
                         Unregister(response_queues, request_id[j])
                  /\ pc' = [pc EXCEPT ![j] = "done"]
                  /\ result' = [result EXCEPT ![j] = NoClient]
                  /\ Return(j)
             ELSE /\ successful_send' = [successful_send EXCEPT ![j] = sent]
                  /\ IF idx[j] < Len(snapshot[j])
                     THEN /\ idx' = [idx EXCEPT ![j] = @ + 1]
                          /\ pc' = pc
                     ELSE /\ idx' = idx
                          /\ pc' = [pc EXCEPT ![j] = "wait"]
                  /\ UNCHANGED <<kind, snapshot, elapsed, result,
                                 response_queues>>
    /\ UNCHANGED <<uuid_count, sock_state, request_id, put_log, gets>>
    /\ UNCHANGED <<ignored, localvars, purevars>>

Waiting(j) == pc[j] = "wait"

QueueOf(j) ==
    IF request_id[j] \in DOMAIN response_queues
    THEN response_queues[request_id[j]].items
    ELSE <<>>

\* time passes for every dispatch blocked in Queue.get; a get whose queue
\* holds a message, or whose budget is used up, returns before time moves on
Tick ==
    /\ \E j \in Jobs : Waiting(j)
    /\ \A j \in Jobs : Waiting(j) => QueueOf(j) = <<>> /\ elapsed[j] < WaitTicks
    /\ elapsed' = [j \in Jobs |-> IF Waiting(j) THEN elapsed[j] + 1 ELSE elapsed[j]]
    /\ UNCHANGED <<client_list, response_queues, response_lock, uuid_count,
                   sock_state, pc, kind, request_id, snapshot, idx,
                   successful_send, result, put_log, attempts, gets>>
    /\ UNCHANGED <<ignored, localvars, purevars>>

\* Queue.get returns a message: build the response, then the finally block
GetReply(j) ==
    /\ Waiting(j)
    /\ QueueOf(j) # <<>>
    /\ response_lock = Free
    /\ response_lock' = Release(j)
    /\ LET parsed_data == QueueGet(QueueOf(j))
       IN result' = [result EXCEPT ![j] = Outcome(kind[j], parsed_data)]
    /\ gets' = [gets EXCEPT ![j] = @ + 1]
    /\ response_queues' = Unregister(response_queues, request_id[j])
    /\ pc' = [pc EXCEPT ![j] = "done"]
    /\ Return(j)
    /\ UNCHANGED <<client_list, uuid_count, sock_state, request_id, put_log,
                   attempts>>
    /\ UNCHANGED <<ignored, localvars, purevars>>

\* Queue.get raises queue.Empty: "Request timed out", then the finally block
TimeoutExpired(j) ==
    /\ Waiting(j)
    /\ QueueOf(j) = <<>>
    /\ TimeoutDue(elapsed[j])
    /\ response_lock = Free
    /\ response_lock' = Release(j)
    /\ result' = [result EXCEPT ![j] = TimedOut]
    /\ response_queues' = Unregister(response_queues, request_id[j])
    /\ pc' = [pc EXCEPT ![j] = "done"]
    /\ Return(j)
    /\ UNCHANGED <<client_list, uuid_count, sock_state, request_id, put_log,
                   attempts, gets>>
    /\ UNCHANGED <<ignored, localvars, purevars>>

Next ==
    \/ \E s \in Socks : Connect(s)
    \/ \E s \in Socks : Disconnect(s)
    \/ \E s \in Socks, m \in Messages : EchoReceive(s, m)
    \/ \E s \in Socks : EchoError(s)
    \/ \E j \in Jobs : ScreenshotNoUrls(j)
    \/ \E j \in Jobs, k \in Kinds : StartDispatch(j, k)
    \/ \E j \in Jobs, ok \in BOOLEAN : SendStep(j, ok)
    \/ Tick
    \/ \E j \in Jobs : GetReply(j)
    \/ \E j \in Jobs : TimeoutExpired(j)

Spec == Init /\ [][Next]_vars

\* Spec together with the messages that are not JSON objects.  Those that
\* make echo raise change the state as EchoError does, the others change
\* nothing but the history variable "ignored".
NextEcho ==
    \/ Next
    \/ \E s \in Socks, parsed_data \in NonObjects : EchoNonObject(s, parsed_data)

SpecEcho == Init /\ [][NextEcho]_vars

\* ------------------------------------------------- local-browser handlers
\* extract / screenshot are coroutines on one event loop: a step is the code
\* between two awaits.  Task t is the t-th request; the page that its
\* browser.get opens is page t.

\* the handler is entered: tab = None, then await browser.get(url, new_tab=True)
Request(t, e, u) ==
    /\ step[t] = "idle"
    /\ t > 1 => step[t - 1] # "idle"
    /\ step' = [step EXCEPT ![t] = "get"]
    /\ endpoint' = [endpoint EXCEPT ![t] = e]
    /\ request' = [request EXCEPT ![t] = [url |-> u]]
    /\ url' = [url EXCEPT ![t] = u]
    /\ UNCHANGED <<tab, readiness, pending, fault, response, pages, closes,
                   named>>
    /\ UNCHANGED <<servervars, purevars>>

\* browser.get returns the tab of a new page, or raises: tab is still None,
\* the except clause builds the error and finally has nothing to close
BrowserGet(t, ok) ==
    /\ step[t] = "get"
    /\ IF ok
       THEN /\ tab' = [tab EXCEPT ![t] = NewTab(t)]
            /\ pages' = [pages EXCEPT ![NewTab(t)] = "open"]
            /\ step' = [step EXCEPT ![t] = "load"]
            /\ UNCHANGED <<pending, fault, response>>
       ELSE /\ fault' = [fault EXCEPT ![t] = GetFailed]
            /\ pending' = [pending EXCEPT ![t] = ErrorResult(GetFailed)]
            /\ response' = [response EXCEPT ![t] = ErrorResult(GetFailed)]
            /\ step' = [step EXCEPT ![t] = "done"]
            /\ UNCHANGED <<tab, pages>>
    /\ UNCHANGED <<endpoint, request, url, readiness, closes, named>>
    /\ UNCHANGED <<servervars, purevars>>

\* asyncio.sleep(1), then page_loaded = await wait_for_page_load(tab): False
\* when the tab is closed or tab.is_closed / tab.evaluate raises
WaitForPageLoad(t, ok) ==
    /\ step[t] = "load"
    /\ pages[tab[t]] # "open" => ~ok
    /\ readiness' = [readiness EXCEPT ![t] = Append(@, ok)]
    /\ step' = [step EXCEPT ![t] = IF ok THEN "check" ELSE "simple"]
    /\ UNCHANGED <<endpoint, request, url, tab, pending, fault, response, pages,
                   closes, named>>
    /\ UNCHANGED <<servervars, purevars>>

\* page_loaded = await wait_for_page_load_simple(tab, timeout=5): False when
\* the tab is closed or tab.is_closed raises, else True after the sleep;
\* when False, asyncio.sleep(2)
WaitForPageLoadSimple(t, raises) ==
    /\ step[t] = "simple"
    /\ pages[tab[t]] # "open" => ~raises
    /\ LET loaded == pages[tab[t]] = "open" /\ ~raises
       IN /\ readiness' = [readiness EXCEPT ![t] = Append(@, loaded)]
          /\ step' = [step EXCEPT ![t] = AfterReadiness(loaded)]
    /\ UNCHANGED <<endpoint, request, url, tab, pending, fault, response, pages,
                   closes, named>>
    /\ UNCHANGED <<servervars, purevars>>

\* if not tab or tab.is_closed(): return {"error": "Tab was closed ..."}
CheckTab(t, raises) ==
    /\ step[t] = "check"
    /\ pages[tab[t]] # "open" => ~raises
    /\ IF raises
       THEN /\ fault' = [fault EXCEPT ![t] = IsClosedFailed]
            /\ pending' = [pending EXCEPT ![t] = ErrorResult(IsClosedFailed)]
            /\ step' = [step EXCEPT ![t] = "close"]
       ELSE IF TabIsClosed(pages[tab[t]])
       THEN /\ pending' = [pending EXCEPT ![t] = TabClosed(endpoint[t])]
            /\ step' = [step EXCEPT ![t] = "close"]
            /\ UNCHANGED fault
       ELSE /\ step' = [step EXCEPT ![t] = "act"]
            /\ UNCHANGED <<pending, fault>>
    /\ UNCHANGED <<endpoint, request, url, tab, readiness, response, pages, closes,
                   named>>
    /\ UNCHANGED <<servervars, purevars>>

\* extract: url = await tab.evaluate("window.location.href"), then
\* source_code = await tab.evaluate("document.documentElement.outerHTML")
\* and the return of both.  Either call raises on a closed page: raised is 0
\* when both return, 1 or 2 for the call that raises
ExtractContent(t, raised, href, source_code) ==
    /\ step[t] = "act"
    /\ endpoint[t] = "/fetch"
    /\ pages[tab[t]] # "open" => raised # 0
    /\ url' = [url EXCEPT ![t] = IF raised = 1 THEN @ ELSE href]
    /\ IF raised = 0
       THEN /\ pending' = [pending EXCEPT ![t] =
                              FetchSuccess(ReportedUrl(request[t].url, href),
                                           source_code)]
            /\ UNCHANGED fault
       ELSE /\ fault' = [fault EXCEPT ![t] = EvaluateFailed]
            /\ pending' = [pending EXCEPT ![t] = ErrorResult(EvaluateFailed)]
    /\ step' = [step EXCEPT ![t] = "close"]
    /\ UNCHANGED <<endpoint, request, tab, readiness, response, pages, closes,
                   named>>
    /\ UNCHANGED <<servervars, purevars>>

\* screenshot: draw the file name, tab.save_screenshot, return the path;
\* save_screenshot raises on a closed page
SaveScreenshot(t, ok) ==
    /\ step[t] = "act"
    /\ endpoint[t] = "/screenshot"
    /\ pages[tab[t]] # "open" => ~ok
    /\ named' = named + 1
    /\ IF ok
       THEN /\ pending' = [pending EXCEPT ![t] =
                              ScreenshotSuccess(FileName(named + 1))]
            /\ UNCHANGED fault
       ELSE /\ fault' = [fault EXCEPT ![t] = ScreenshotFailed]
            /\ pending' = [pending EXCEPT ![t] = ErrorResult(ScreenshotFailed)]
    /\ step' = [step EXCEPT ![t] = "close"]
    /\ UNCHANGED <<endpoint, request, url, tab, readiness, response, pages, closes>>
    /\ UNCHANGED <<servervars, purevars>>

\* finally: if tab: await tab.close(), an exception of which is printed;
\* then the handler returns
CloseTab(t, raised, gone) ==
    /\ step[t] = "close"
    /\ ~raised => gone
    /\ closes' = [closes EXCEPT ![t] =
                     Append(@, IF raised THEN "raised" ELSE "closed")]
    /\ pages' = [pages EXCEPT ![tab[t]] = PageAfterClose(@, raised, gone)]
    /\ response' = [response EXCEPT ![t] = FinalResult(pending[t], raised)]
    /\ step' = [step EXCEPT ![t] = "done"]
    /\ UNCHANGED <<endpoint, request, url, tab, readiness, pending, fault, named>>
    /\ UNCHANGED <<servervars, purevars>>

\* the task is cancelled while suspended: CancelledError is raised at the
\* await.  In the try body it runs the finally block; in tab.close() it
\* leaves the handler, the page closed (gone) or not
Cancel(t, gone) ==
    /\ step[t] \in {"get", "load", "simple", "check", "act", "close"}
    /\ pending' = [pending EXCEPT ![t] = Cancelled]
    /\ IF step[t] = "get"
       THEN /\ gone
            /\ response' = [response EXCEPT ![t] = Cancelled]
            /\ step' = [step EXCEPT ![t] = "done"]
            /\ UNCHANGED <<pages, closes>>
       ELSE IF step[t] = "close"
       THEN /\ response' = [response EXCEPT ![t] = Cancelled]
            /\ step' = [step EXCEPT ![t] = "done"]
            /\ closes' = [closes EXCEPT ![t] = Append(@, "cancelled")]
            /\ pages' = [pages EXCEPT ![tab[t]] = IF gone THEN "closed" ELSE @]
       ELSE /\ gone
            /\ step' = [step EXCEPT ![t] = "close"]
            /\ UNCHANGED <<response, pages, closes>>
    /\ UNCHANGED <<endpoint, request, url, tab, readiness, fault, named>>
    /\ UNCHANGED <<servervars, purevars>>

\* the page of a running task is closed from outside the handler (the page
\* closes itself, the renderer crashes, the browser window is closed)
PageCloses(t) ==
    /\ pages[t] = "open"
    /\ step[t] # "done"
    /\ pages' = [pages EXCEPT ![t] = "closed"]
    /\ UNCHANGED <<step, endpoint, request, url, tab, readiness, pending, fault,
                   response, closes, named>>
    /\ UNCHANGED <<servervars, purevars>>

NextLocal ==
    \/ \E t \in Tasks, e \in Endpoints, u \in Urls : Request(t, e, u)
    \/ \E t \in Tasks, ok \in BOOLEAN : BrowserGet(t, ok)
    \/ \E t \in Tasks, ok \in BOOLEAN : WaitForPageLoad(t, ok)
    \/ \E t \in Tasks, raises \in BOOLEAN : WaitForPageLoadSimple(t, raises)
    \/ \E t \in Tasks, raises \in BOOLEAN : CheckTab(t, raises)
    \/ \E t \in Tasks, raised \in 0 .. 2, href \in Urls, h \in Htmls :
          ExtractContent(t, raised, href, h)
    \/ \E t \in Tasks, ok \in BOOLEAN : SaveScreenshot(t, ok)
    \/ \E t \in Tasks, raised \in BOOLEAN, gone \in BOOLEAN :
          CloseTab(t, raised, gone)
    \/ \E t \in Tasks, gone \in BOOLEAN : Cancel(t, gone)
    \/ \E t \in Tasks : PageCloses(t)

SpecLocal == Init /\ [][NextLocal]_vars

\* --------------------------------------------------------------- extractors
InitExtract ==
    /\ InitHandlers
    /\ page \in Pages
    /\ extracted = NotExtracted
    /\ IdleShot
    /\ IdleInfo

\* extracted_data = extract_from_meta_tags(parser, url)
ExtractFromMetaTags ==
    /\ extracted = NotExtracted
    /\ extracted' = extract_from_meta_tags(page)
    /\ UNCHANGED <<page, servervars, localvars, shotvars, infovars>>

NextExtract == ExtractFromMetaTags

SpecExtract == InitExtract /\ [][NextExtract]_vars

\* ------------------------------------------------------ screenshot results
InitShot ==
    /\ InitHandlers
    /\ IdleExtract
    /\ shot_reply \in ShotReplies
    /\ shot_response = NotProcessed
    /\ IdleInfo

\* capture_screenshot from "results = []" to its return or its exception
ProcessResults ==
    /\ shot_response = NotProcessed
    /\ shot_response' = ShotEntries(<<>>, 0, shot_reply)
    /\ UNCHANGED <<shot_reply, servervars, localvars, extractvars, infovars>>

NextShot == ProcessResults

SpecShot == InitShot /\ [][NextShot]_vars

\* ---------------------------------------------------- extract_product_info
\* a page, what extract_from_meta_tags does for it, and what the other
\* extractors do: at most MaxActive of them do not return None
InitInfo ==
    /\ InitHandlers
    /\ IdleShot
    /\ page \in InfoPages
    /\ extracted = NotExtracted
    /\ \E active \in {a \in SUBSET (Extractors \ {MetaTags}) :
                          Cardinality(a) <= MaxActive} :
          \E shape \in [active -> Shapes] :
             outcomes = [e \in Extractors |->
                            IF e = MetaTags THEN extract_from_meta_tags(page)
                            ELSE IF e \in active THEN OutcomeOf(e, shape[e])
                            ELSE NoneResult]
    /\ info = NotExtracted

\* product_info = extract_product_info(parser, url)
ExtractProductInfo ==
    /\ info = NotExtracted
    /\ info' = extract_product_info(page, outcomes)
    /\ UNCHANGED <<outcomes, servervars, localvars, extractvars, shotvars>>

NextInfo == ExtractProductInfo

SpecInfo == InitInfo /\ [][NextInfo]_vars

\* the event loop resumes a coroutine whose asyncio.sleep has run out and
\* runs synchronous code to the next await; the awaits on the browser
\* (browser.get, tab.evaluate, tab.save_screenshot, tab.close) are not
\* inside asyncio.wait_for and resume only when the browser answers
FairSpecLocal ==
    /\ SpecLocal
    /\ \A t \in Tasks :
          /\ WF_vars(\E raises \in BOOLEAN : WaitForPageLoadSimple(t, raises))
          /\ WF_vars(\E raises \in BOOLEAN : CheckTab(t, raises))

\* ---------------------------------------------------------------- claims
Pending(j) == pc[j] \in {"send", "wait"}
Dispatched(j) == request_id[j] # NoId
Returned(j) == pc[j] = "done" /\ Dispatched(j)
SomeSent(j) == \E i \in 1 .. Len(attempts[j]) : attempts[j][i][2]
SomeFailed(j) == \E i \in 1 .. Len(attempts[j]) : ~attempts[j][i][2]
Tried(j) == [i \in 1 .. Len(attempts[j]) |-> attempts[j][i][1]]
OwnEntry(j) ==
    /\ request_id[j] \in DOMAIN response_queues
    /\ response_queues[request_id[j]].owner = j

\* C1: from the registration of its queue until its handler returns, a
\* dispatch finds under its request id exactly the queue it registered, and
\* two dispatches in progress never share an entry of the table.
C1_OneEntryPerPendingJob ==
    /\ \A j \in Jobs : Pending(j) =>
          /\ OwnEntry(j)
          /\ Cardinality({i \in DOMAIN response_queues : i = request_id[j]}) = 1
    /\ \A j, k \in Jobs : Pending(j) /\ Pending(k) /\ j # k =>
          request_id[j] # request_id[k]

C1_Witness ==
    \E j, k \in Jobs :
        /\ j # k
        /\ pc[j] = "wait" /\ pc[k] = "send"
        /\ OwnEntry(j) /\ OwnEntry(k)

\* C2: the response of a dispatch that took a reply is built from the first
\* message that was put in its queue, whatever was put after it and whatever
\* messages arrived with other ids.
C2_FirstReplyWins ==
    \A j \in Jobs : gets[j] > 0 =>
        /\ put_log[request_id[j]] # <<>>
        /\ \E k \in Kinds :
              result[j] = Outcome(k, Head(put_log[request_id[j]]))

C2_Witness ==
    \E j \in Jobs :
        /\ pc[j] = "done" /\ gets[j] = 1
        /\ Len(put_log[request_id[j]]) = 2
        /\ put_log[request_id[j]][1].results # put_log[request_id[j]][2].results
        /\ result[j].code = 200

\* C3: a dispatch that waits returns "Request timed out" only when no reply
\* was put in its queue and exactly the wait budget has elapsed, it never
\* waits longer than the budget, and once it has returned its id is not in
\* the table.
C3_TimedOutAtBudget ==
    /\ [][\A j \in Jobs :
            (pc[j] = "wait" /\ pc'[j] = "done" /\ result'[j] = TimedOut) =>
                /\ elapsed[j] = WaitTicks
                /\ put_log[request_id[j]] = <<>>
                /\ request_id[j] \notin DOMAIN response_queues']_vars
    /\ [][\A j \in Jobs :
            (pc[j] = "wait" /\ pc'[j] = "done" /\ put_log[request_id[j]] = <<>>) =>
                result'[j] = TimedOut]_vars
    /\ [](\A j \in Jobs :
            /\ pc[j] = "wait" => elapsed[j] <= WaitTicks /\ SomeSent(j)
            /\ result[j] = TimedOut =>
                  SomeSent(j) /\ request_id[j] \notin DOMAIN response_queues)

C3_Witness ==
    \E j \in Jobs :
        /\ pc[j] = "done" /\ result[j] = TimedOut
        /\ request_id[j] \notin DOMAIN response_queues

\* C4: a dispatch none of whose sends succeeded (empty copy of the registry,
\* or every send raised) returns "No client available", has taken nothing
\* from a queue, has left no entry in the table, and never waits.
C4_NoClientWithoutWait ==
    \A j \in Jobs :
        /\ (Returned(j) /\ ~SomeSent(j)) =>
              /\ result[j] = NoClient
              /\ gets[j] = 0
              /\ request_id[j] \notin DOMAIN response_queues
        /\ (Dispatched(j) /\ ~SomeSent(j)) => pc[j] # "wait"
        /\ result[j] = NoClient => ~SomeSent(j)

C4_Witness ==
    \E j, k \in Jobs :
        /\ Returned(j) /\ attempts[j] = <<>> /\ result[j] = NoClient
        /\ Returned(k) /\ Len(attempts[k]) = 2 /\ result[k] = NoClient

\* C5: a send that raises removes its socket, and only it, from client_list;
\* the loop goes on to the next socket of the copy, so that a dispatch that
\* waits has tried every socket of its copy and at least one send succeeded.
C5_SendFailureRemovesThatChannel ==
    /\ [][\A j \in Jobs :
            (pc[j] = "send" /\ Len(attempts'[j]) = Len(attempts[j]) + 1) =>
                LET a == attempts'[j][Len(attempts'[j])]
                IN /\ a[1] = snapshot[j][idx[j]]
                   /\ client_list' =
                         IF a[2] THEN client_list
                         ELSE SelectSeq(client_list, LAMBDA c : c # a[1])
                   /\ idx[j] < Len(snapshot[j]) =>
                         pc'[j] = "send" /\ idx'[j] = idx[j] + 1]_vars
    /\ [](\A j \in Jobs :
            /\ pc[j] = "send" => Tried(j) = SubSeq(snapshot[j], 1, idx[j] - 1)
            /\ pc[j] = "wait" => Tried(j) = snapshot[j]
            /\ (Dispatched(j) /\ SomeSent(j) /\ pc[j] # "send") =>
                  pc[j] = "wait" \/ (pc[j] = "done" /\ result[j] # NoClient))

C5_Witness ==
    \E j \in Jobs :
        /\ pc[j] = "wait"
        /\ attempts[j][1][2] = FALSE
        /\ Len(attempts[j]) = 2 /\ attempts[j][2][2] = TRUE
        /\ attempts[j][1][1] \notin Range(client_list)
        /\ attempts[j][2][1] \in Range(client_list)

\* C6: a message carrying the id of a dispatch that has returned changes
\* nothing: no entry is created for that id, the response already returned
\* stays what it was, and the socket it came in on stays registered and open.
C6_LateReplyDiscarded ==
    /\ [](\A j \in Jobs : Returned(j) =>
            request_id[j] \notin DOMAIN response_queues)
    /\ [][\A j \in Jobs : pc[j] = "done" =>
            pc'[j] = "done" /\ result'[j] = result[j] /\ gets'[j] = gets[j]]_vars
    /\ [][\A s \in Socks, m \in Messages :
            ((\E j \in Jobs : Returned(j) /\ request_id[j] = m.request_id)
             /\ EchoReceive(s, m)) =>
                UNCHANGED vars]_vars

\* receiving the late message leaves the state as it is, so the state in
\* which it is received is also the state after it
C6_Witness ==
    \E j \in Jobs, s \in Socks :
        /\ pc[j] = "done" /\ result[j] = TimedOut
        /\ sock_state[s] = "open" /\ s \in Range(client_list)
        /\ <<s, TRUE>> \in Range(attempts[j])
        /\ request_id[j] \notin DOMAIN response_queues

\* C7: no two dispatches have the same request id, and the queue of a
\* dispatch only ever holds messages that carry its own id, never the id of
\* a dispatch that timed out.
C7_RequestIdsNeverReused ==
    /\ \A j, k \in Jobs :
          (Dispatched(j) /\ Dispatched(k) /\ j # k) => request_id[j] # request_id[k]
    /\ \A i \in DOMAIN response_queues :
          /\ request_id[response_queues[i].owner] = i
          /\ \A n \in 1 .. Len(response_queues[i].items) :
                response_queues[i].items[n].request_id = i
          /\ \A j \in Jobs : result[j] = TimedOut => request_id[j] # i

C7_Witness ==
    \E j, k \in Jobs :
        /\ result[j] = TimedOut
        /\ Pending(k) /\ request_id[k] # request_id[j]
        /\ QueueOf(k) # <<>>

\* C8: whenever a dispatch is about to send or has sent its job to a socket,
\* its queue is in the table, so a message with its id received while the
\* dispatch is in progress is put in that queue.
C8_RegisteredBeforeSend ==
    /\ [](\A j \in Jobs : (pc[j] = "send" \/ (Pending(j) /\ attempts[j] # <<>>)) =>
            OwnEntry(j))
    /\ [][\A s \in Socks, m \in Messages :
            ((\E j \in Jobs : Pending(j) /\ request_id[j] = m.request_id)
             /\ EchoReceive(s, m)) =>
                /\ m.request_id \in DOMAIN response_queues
                /\ m.request_id \in DOMAIN response_queues'
                /\ response_queues'[m.request_id].items =
                      Append(response_queues[m.request_id].items, m)]_vars

C8_Witness ==
    \E j \in Jobs, s \in Socks :
        /\ pc[j] = "send"
        /\ attempts[j] = <<<<s, TRUE>>>>
        /\ QueueOf(j) # <<>>

\* C9: a message without request_id, or with a request_id that is not a key
\* of the table, changes nothing: table, queues, registry, sockets and jobs
\* stay as they are.  (Fails for a request_id that is a JSON array or object.)
C9_UnmatchedMessageIgnored ==
    [][\A s \in Socks, m \in Messages :
          ((m.request_id = NoId \/ m.request_id \notin DOMAIN response_queues)
           /\ EchoReceive(s, m)) =>
              UNCHANGED vars]_vars

\* C10 as stated: a queue of the table never holds more than one message.
C10_SlotHoldsAtMostOne ==
    \A i \in DOMAIN response_queues : Len(response_queues[i].items) <= 1

\* C10 amended: a queue may hold several messages, but the dispatch that
\* registered it is its only reader, takes at most one message from it, and
\* removes the queue with whatever it still holds when it returns.
C10_SingleReader ==
    \A j \in Jobs :
        /\ gets[j] <= 1
        /\ gets[j] = 1 => pc[j] = "done"
        /\ Returned(j) => request_id[j] \notin DOMAIN response_queues
        /\ \A i \in DOMAIN response_queues :
              response_queues[i].owner = j => Pending(j) /\ request_id[j] = i

C10_Witness ==
    \E j \in Jobs :
        /\ pc[j] = "done" /\ gets[j] = 1
        /\ Len(put_log[request_id[j]]) >= 2

\* a send to socket s has raised in some dispatch
FailedSend(s) ==
    \E j \in Jobs : \E i \in 1 .. Len(attempts[j]) : attempts[j][i] = <<s, FALSE>>

NoDuplicates(list) ==
    \A a, b \in 1 .. Len(list) : list[a] = list[b] => a = b

\* C11 as stated: a socket is in client_list from its connection on, and is
\* out of it as soon as its peer has disconnected or a send to it has raised.
C11_RegistryTracksLiveChannels ==
    \A s \in Socks :
        /\ (sock_state[s] = "open" /\ ~FailedSend(s)) => s \in Range(client_list)
        /\ (sock_state[s] \in {"closed", "ended"} \/ FailedSend(s)) =>
              s \notin Range(client_list)

\* C11 amended: a socket is in client_list from its connection on; it is out
\* of it, for good, once its receive loop has ended or a send to it has
\* raised, and no dispatch that starts after that has it in its copy.  A
\* socket whose peer has disconnected stays listed until receive raises.
C11_RegistryTracksObservedFailures ==
    /\ [](\A s \in Socks :
            /\ (sock_state[s] = "open" /\ ~FailedSend(s)) =>
                  s \in Range(client_list)
            /\ (sock_state[s] \in {"new", "ended"} \/ FailedSend(s)) =>
                  s \notin Range(client_list)
            /\ NoDuplicates(client_list))
    /\ [][\A j \in Jobs : (pc[j] = "idle" /\ pc'[j] = "send") =>
            \A s \in Range(snapshot'[j]) :
                sock_state[s] \in {"open", "closed"} /\ ~FailedSend(s)]_vars

C11_Witness ==
    \E s \in Socks, j \in Jobs :
        /\ FailedSend(s) /\ sock_state[s] = "open"
        /\ s \notin Range(client_list)
        /\ pc[j] = "send" /\ attempts[j] = <<>>
        /\ s \notin Range(snapshot[j])

\* the statement that changes client_list in a step
RegistrySite ==
    IF Len(client_list') > Len(client_list) THEN "echo_append"
    ELSE IF \E s \in Socks : sock_state[s] # "ended" /\ sock_state'[s] = "ended"
         THEN "echo_remove"
         ELSE "send_remove"

\* C12: every change of client_list (append on connect, remove on disconnect,
\* remove on send failure) is made by a statement inside "with response_lock"
C12_RegistryMutationsUnderLock ==
    [][client_list' # client_list => RegistrySite \in UnderLock]_vars

\* C13: the fan-out iterates the copy of client_list taken when the dispatch
\* started: the copy is not changed by later connects and removals, every
\* socket of the copy gets exactly one send attempt, in order, and no other
\* socket gets one
C13_FanOutOverSnapshot ==
    /\ [][\A j \in Jobs :
            /\ (pc[j] = "idle" /\ pc'[j] = "send") => snapshot'[j] = client_list
            /\ (pc[j] = "send" /\ pc'[j] = "send") => snapshot'[j] = snapshot[j]
            /\ attempts'[j] # attempts[j] =>
                 /\ pc[j] = "send"
                 /\ \E ok \in BOOLEAN :
                       attempts'[j] =
                          Append(attempts[j], <<snapshot[j][idx[j]], ok>>)
                 /\ pc'[j] # "send" => Tried(j)' = snapshot[j]]_vars
    /\ [](\A j \in Jobs :
            /\ NoDuplicates(Tried(j))
            /\ pc[j] = "send" =>
                  Tried(j) = SubSeq(snapshot[j], 1, idx[j] - 1)
            /\ pc[j] = "wait" => Tried(j) = snapshot[j])

\* a fan-out under way over <<1, 2>> while socket 2 has left client_list
C13_Witness ==
    \E j \in Jobs :
        /\ pc[j] = "send" /\ idx[j] = 2
        /\ snapshot[j] = <<1, 2>>
        /\ attempts[j] = <<<<1, TRUE>>>>
        /\ client_list = <<1>>

\* C14: response_lock is never held by a dispatch that is sending or blocked
\* in Queue.get, so while dispatches are pending echo can put a reply in the
\* queue of any pending job and a further dispatch can register its queue
C14_LockOnlyAroundTable ==
    /\ \A j \in Jobs : Pending(j) => response_lock = Free
    /\ \A k \in Jobs, s \in Socks :
          (/\ Pending(k)
           /\ sock_state[s] = "open"
           /\ request_id[k] \in Knows(s)
           /\ Delivered < MaxReplies) =>
              ENABLED EchoReceive(s, [request_id |-> request_id[k],
                                      results |-> "p1"])
    /\ \A j, k \in Jobs :
          (Pending(j) /\ Submitted(k) /\ uuid_count < MaxJobs) =>
              ENABLED StartDispatch(k, "fetch")

\* job 1 has waited out a tick and is still blocked; job 2 registered, and a
\* reply was put in its queue
C14_Witness ==
    /\ pc[1] = "wait" /\ elapsed[1] = WaitTicks /\ QueueOf(1) = <<>>
    /\ pc[2] = "wait" /\ elapsed[2] = 0 /\ QueueOf(2) # <<>>

\* the responses that the handlers build themselves
Structured(r) ==
    \/ r \in {NoUrls, NoClient, TimedOut}
    \/ r.code = 200

\* C15: every job ends in a response built by its handler, whatever reply
\* with its request id a worker has sent
C15_AlwaysStructuredResponse ==
    \A j \in Jobs : pc[j] = "done" => Structured(result[j])

\* ------------------------------------------ local-browser variant claims
IsSuccess(r) ==
    \/ DOMAIN r = {"status_code", "url", "html"}
    \/ DOMAIN r = {"message", "path"}
IsError(r) == DOMAIN r = {"error"}
Ended(t) == step[t] = "done"

\* C16: a fetch or screenshot task that is not cancelled returns a success
\* payload or an {"error": ...} result; an exception raised by browser.get,
\* the tab check, tab.evaluate or tab.save_screenshot is returned as the
\* error result that carries its message
C16_ExceptionsBecomeErrorResults ==
    \A t \in Tasks :
        (Ended(t) /\ response[t] # Cancelled) =>
            /\ IsSuccess(response[t]) \/ IsError(response[t])
            /\ fault[t] # NoFault => response[t] = [error |-> fault[t]]
            /\ fault[t] = NoFault =>
                  IsSuccess(response[t]) \/ response[t] = TabClosed(endpoint[t])

C16_Witness ==
    \E t \in Tasks :
        /\ Ended(t)
        /\ fault[t] = EvaluateFailed
        /\ response[t] = [error |-> EvaluateFailed]

\* C17 as stated: no task ends with the page it opened still open
C17_PageClosedOnEveryExit ==
    \A t \in Tasks : Ended(t) => pages[t] # "open"

\* C17 amended: on every exit path a task that obtained a tab has called
\* tab.close() exactly once when it ends, and its page is closed unless that
\* call raised or was cancelled; a task without a tab opened no page
C17_CloseCalledOnEveryExit ==
    \A t \in Tasks :
        Ended(t) =>
            /\ tab[t] = NoTab => pages[t] = "none" /\ closes[t] = <<>>
            /\ tab[t] # NoTab =>
                  /\ Len(closes[t]) = 1
                  /\ closes[t] = <<"closed">> => pages[t] = "closed"

\* a task cancelled in its try body has closed its page
C17_Witness ==
    \E t \in Tasks :
        /\ Ended(t)
        /\ response[t] = Cancelled
        /\ closes[t] = <<"closed">>
        /\ pages[t] = "closed"

\* C18: when tab.close() raises, the task returns the value that its try
\* statement had produced, success or error, and not the close failure
C18_CleanupFailureNotTheResult ==
    \A t \in Tasks :
        (Ended(t) /\ closes[t] = <<"raised">>) =>
            /\ response[t] = pending[t]
            /\ response[t] # [error |-> CloseFailed]
            /\ fault[t] # NoFault => response[t] = [error |-> fault[t]]
            /\ fault[t] = NoFault =>
                  \/ IsSuccess(response[t])
                  \/ response[t] \in {TabClosed(endpoint[t]), Cancelled}

C18_Witness ==
    \E t \in Tasks :
        /\ Ended(t)
        /\ closes[t] = <<"raised">>
        /\ IsSuccess(response[t])

\* C19: after wait_for_page_load and wait_for_page_load_simple have both
\* returned False the handler goes on to the tab check without a result;
\* with the page open and no exception it performs the extraction or the
\* screenshot, and what it returns is that content
C19_ReadinessFailureNotFatal ==
    /\ [][\A t \in Tasks :
            (/\ step[t] = "simple" /\ step'[t] # "simple"
             /\ pending'[t] # Cancelled) =>
                step'[t] = "check" /\ pending'[t] = NotReturned]_vars
    /\ [][\A t \in Tasks :
            (/\ step[t] = "check" /\ step'[t] # "check"
             /\ readiness[t] = <<FALSE, FALSE>>
             /\ pages[t] = "open"
             /\ pending'[t] # Cancelled /\ fault'[t] = NoFault) =>
                step'[t] = "act"]_vars
    /\ [](\A t \in Tasks :
            (/\ step[t] \in {"close", "done"}
             /\ readiness[t] = <<FALSE, FALSE>>
             /\ fault[t] = NoFault
             /\ pending[t] \notin {Cancelled, TabClosed(endpoint[t])}) =>
                IsSuccess(pending[t]))

C19_Witness ==
    \E t \in Tasks :
        /\ Ended(t)
        /\ readiness[t] = <<FALSE, FALSE>>
        /\ IsSuccess(response[t])

\* C20: the success result of a task whose wait_for_page_load returned False
\* differs from the success result of a task whose wait_for_page_load
\* returned True
C20_DegradedResultFlagged ==
    \A t, o \in Tasks :
        (/\ Ended(t) /\ Ended(o)
         /\ IsSuccess(response[t]) /\ IsSuccess(response[o])
         /\ readiness[t] # <<>> /\ ~readiness[t][1]
         /\ readiness[o] = <<TRUE>>) =>
            response[t] # response[o]

\* C21: every task that has been submitted eventually ends, whether or not
\* the browser answers
C21_EveryJobTerminates ==
    \A t \in Tasks : (step[t] = "get") ~> (step[t] = "done")

\* C22: tasks running at the same time each have a page of their own; a page
\* is closed only by the task that opened it (or from outside the handlers);
\* a fetch returns the location that its own page reported and two
\* screenshots never return the same file name
C22_JobsAreIndependent ==
    /\ [](\A t, o \in Tasks :
            t # o =>
               /\ (tab[t] # NoTab /\ tab[o] # NoTab) => tab[t] # tab[o]
               /\ (/\ Ended(t) /\ Ended(o)
                   /\ DOMAIN response[t] = {"message", "path"}
                   /\ DOMAIN response[o] = {"message", "path"}) =>
                      response[t].path # response[o].path)
    /\ [](\A t \in Tasks :
            (Ended(t) /\ DOMAIN response[t] = {"status_code", "url", "html"}) =>
                response[t].url = url[t])
    /\ [][\A p \in Tasks :
            (pages[p] = "open" /\ pages'[p] = "closed") =>
                \/ step' = step
                \/ tab[p] = p /\ step[p] = "close" /\ step'[p] = "done"]_vars

\* task t has closed its page while task o is still working on its own
C22_Witness ==
    \E t, o \in Tasks :
        /\ Ended(t) /\ closes[t] = <<"closed">> /\ pages[tab[t]] = "closed"
        /\ endpoint[t] = "/screenshot" /\ IsSuccess(response[t])
        /\ endpoint[o] = "/screenshot"
        /\ step[o] = "act" /\ pages[tab[o]] = "open"

\* task t is between its call of browser.get and its return: it is using
\* the browser
Using(t) == step[t] \in {"get", "load", "simple", "check", "act", "close"}

\* C23: at no time do more tasks use the browser than there are browser
\* instances; with the one instance, at most one task at a time
C23_AtMostPoolSizeJobs ==
    Cardinality({t \in Tasks : Using(t)}) <= PoolSize

\* the number of times the handler of task t has called browser.get: the
\* call is not in a loop
Attempts(t) == IF step[t] = "idle" THEN 0 ELSE 1

\* C25: a task that ends with a failure of navigate, readiness or act has
\* been attempted again (max_retries is 2 by default, and the handlers have
\* no health check that could forbid the retry)
C25_FailedJobIsRetried ==
    \A t \in Tasks :
        (Ended(t) /\ fault[t] # NoFault /\ response[t] # Cancelled) =>
            Attempts(t) >= 2

\* C27: a dispatch makes one pass over its copy of client_list: its k-th send
\* attempt is made at loop position k, no socket is tried twice, and a
\* dispatch that returned "No client available" had no successful send, took
\* no reply and makes no further attempt
C27_SingleFanOutPass ==
    /\ [](\A j \in Jobs :
            /\ NoDuplicates(Tried(j))
            /\ result[j] = NoClient =>
                  /\ pc[j] = "done"
                  /\ ~SomeSent(j)
                  /\ gets[j] = 0
                  /\ Len(attempts[j]) <= MaxSocks)
    /\ [][\A j \in Jobs :
            /\ attempts'[j] # attempts[j] =>
                  pc[j] = "send" /\ Len(attempts'[j]) = idx[j]
            /\ pc[j] = "done" =>
                  pc'[j] = "done" /\ attempts'[j] = attempts[j]]_vars

\* both sends of a dispatch failed and it returned "No client available"
C27_Witness ==
    \E j \in Jobs :
        /\ pc[j] = "done" /\ result[j] = NoClient
        /\ attempts[j] = <<<<1, FALSE>>, <<2, FALSE>>>>

\* C29: response_queues holds entries of dispatches in progress only; when
\* no dispatch is sending or waiting it is empty, whatever replies, timeouts,
\* disconnects, send failures and malformed replies there have been
C29_NoCorrelationLeak ==
    /\ DOMAIN response_queues \subseteq {request_id[j] : j \in {k \in Jobs : Pending(k)}}
    /\ (\A j \in Jobs : ~Pending(j)) => response_queues = <<>>

\* every job has returned, one on a reply without "results", one on a
\* timeout after a send failure, and the table is empty
C29_Witness ==
    /\ \A j \in Jobs : pc[j] = "done"
    /\ \E j, k \in Jobs :
          /\ result[j] = Unhandled
          /\ result[k] = TimedOut /\ SomeFailed(k)
    /\ response_queues = <<>>

\* C30: a dispatch with a successful send does not return "No client
\* available"; it returns the reply it took from its queue, or "Request timed
\* out" after the whole budget with no reply taken
C30_SentDispatchWaitsForReply ==
    \A j \in Jobs :
        (pc[j] = "done" /\ SomeSent(j)) =>
            /\ result[j] # NoClient
            /\ \/ result[j] = TimedOut /\ gets[j] = 0
               \/ result[j].code = 200 /\ gets[j] = 1

\* C28: extract_from_meta_tags never raises; it returns None exactly when
\* no price node with a value is found, and otherwise a record of source
\* "META TAGS" with one variation that carries that price
PriceFound(p) ==
    p.price.found /\ (Truthy(p.price.content) \/ p.price.text # <<>>)

C28_MetaTagsNoneOrOneVariation ==
    extracted # NotExtracted =>
        /\ "raised" \notin DOMAIN extracted
        /\ extracted = NoneResult <=> ~PriceFound(page)
        /\ extracted # NoneResult =>
              /\ extracted.source = "META TAGS"
              /\ Len(extracted.variations) = 1
              /\ extracted.variations[1].price = ContentOrText(page.price)

\* the try body of echo raises for this value
NotADict(v) ==
    \/ v.type \in {"null", "number", "boolean"}
    \/ v.type = "array" /\ "request_id" \in Range(v.items)
    \/ v.type = "string" /\ "request_id" \in Range(v.text)

\* the receive loop of socket s ends in this step: the only way out of
\* "while True" is the break of the except branch
LoopEnds(s) == sock_state[s] # "ended" /\ sock_state'[s] = "ended"

\* socket s is dropped and nothing else changes: the table, the queues and
\* the registration of every other socket stay as they are
DropsOnly(s) ==
    /\ sock_state'[s] = "ended"
    /\ s \notin Range(client_list')
    /\ client_list' = SelectSeq(client_list, LAMBDA c : c # s)
    /\ \A o \in Socks \ {s} : sock_state'[o] = sock_state[o]
    /\ response_queues' = response_queues
    /\ put_log' = put_log
    /\ UNCHANGED jobvars

\* C31 as stated: an error of receive or json.loads, and any message that is
\* JSON but not an object, removes the socket from client_list and ends its
\* loop, and changes neither the table, nor a queue, nor another socket.
C31_NonObjectRemovesChannel ==
    [][\A s \in Socks :
          (EchoError(s) \/ \E v \in NonObjects : EchoNonObject(s, v)) =>
              DropsOnly(s)]_vars

\* C31 amended: an exception raised while receiving, parsing or handling a
\* message (receive or json.loads raises; the message is null, a number or
\* a boolean, or an array or string in which "request_id" is found) removes
\* the socket and ends its loop and changes nothing else; an array or string
\* in which "request_id" is not found is ignored: the socket stays open and
\* registered, and table, queues and jobs stay as they are.
C31_RaisedErrorRemovesChannel ==
    /\ [][\A s \in Socks : LoopEnds(s) => DropsOnly(s)]_vars
    /\ [][ignored' # ignored =>
            /\ \E s \in Socks, v \in NonObjects :
                  ~NotADict(v) /\ EchoNonObject(s, v)
            /\ UNCHANGED <<client_list, sock_state, response_queues,
                           response_lock, put_log>>
            /\ UNCHANGED jobvars]_vars
    /\ [](\A s \in Socks, v \in NonObjects :
            (sock_state[s] = "open" /\ NotADict(v)) =>
                ENABLED (EchoNonObject(s, v) /\ LoopEnds(s)))

C31_Witness ==
    \E s, o \in Socks, j \in Jobs :
        /\ s # o
        /\ sock_state[s] = "ended" /\ s \notin Range(client_list)
        /\ sock_state[o] = "open" /\ o \in Range(client_list)
        /\ ignored = 1
        /\ pc[j] = "wait" /\ OwnEntry(j) /\ QueueOf(j) # <<>>
        /\ ~FailedSend(s)

\* a send of job j to socket s raises in this step
SendFails(j, s) ==
    /\ pc[j] = "send"
    /\ attempts'[j] = Append(attempts[j], <<s, FALSE>>)

\* C32: every attempt to remove a socket from client_list, by a dispatch whose
\* send to it raised or by its own receive loop, in whatever order they come,
\* leaves client_list without that socket and with every other socket where
\* it was, and raises nothing: the loop of the dispatch goes on to the next
\* socket, to the wait or to "No client available".
C32_ConcurrentRemovalIsSafe ==
    /\ [][\A s \in Socks :
            (LoopEnds(s) \/ \E j \in Jobs : SendFails(j, s)) =>
                /\ s \notin Range(client_list')
                /\ client_list' = SelectSeq(client_list, LAMBDA c : c # s)]_vars
    /\ [][\A j \in Jobs, s \in Socks : SendFails(j, s) =>
            /\ pc'[j] \in {"send", "wait"} \/ result'[j] = NoClient
            /\ pc'[j] = "send" => idx'[j] = idx[j] + 1
            /\ sock_state'[s] = sock_state[s]]_vars
    /\ [](\A s \in Socks :
            (FailedSend(s) \/ sock_state[s] = "ended") =>
                s \notin Range(client_list))

\* two dispatches that both copied the registry with the socket in it have
\* both failed to send to it, its receive loop has ended too, and the other
\* socket is still registered
C32_Witness ==
    \E s, o \in Socks, j, k \in Jobs :
        /\ s # o /\ j # k
        /\ <<s, FALSE>> \in Range(attempts[j])
        /\ <<s, FALSE>> \in Range(attempts[k])
        /\ sock_state[s] = "ended"
        /\ s \notin Range(client_list)
        /\ o \in Range(client_list)

\* C33: client_list never holds a socket twice, and a socket that was
\* removed from it (by a send that raised or by the end of its loop) is never
\* in it again: a message received later on a socket that a failed send
\* removed, matching or not, leaves the socket out of the list.
C33_NoDuplicateNoReentry ==
    /\ [](NoDuplicates(client_list))
    /\ [][\A s \in Socks :
            (sock_state[s] # "new" /\ s \notin Range(client_list)) =>
                s \notin Range(client_list')]_vars
    /\ [][Len(client_list') > Len(client_list) =>
            \E s \in Socks :
                /\ client_list' = Append(client_list, s)
                /\ sock_state[s] = "new" /\ s \notin Range(client_list)]_vars

\* socket s was removed by the failed send of job j and is still open; job k
\* sent its request to s alone and has the reply of s in its queue
C33_Witness ==
    \E s \in Socks, j, k \in Jobs :
        /\ j # k
        /\ sock_state[s] = "open"
        /\ <<s, FALSE>> \in Range(attempts[j])
        /\ s \notin Range(client_list)
        /\ attempts[k] = <<<<s, TRUE>>>>
        /\ pc[k] = "wait" /\ QueueOf(k) # <<>>

\* C34: a task whose check after the readiness phase finds its page closed
\* goes straight to the finally block with the "Tab was closed" error, which
\* is what it returns unless it is cancelled, and never reaches the evaluate
\* or save_screenshot calls; a fetch whose two evaluate calls return reports
\* status 200, the location that the page gave (whatever URL was requested)
\* and the outer HTML that the page gave.
C34_ClosedTabSkipsAct ==
    /\ [][\A t \in Tasks :
            (step[t] = "check" /\ pages[tab[t]] # "open" /\ step'[t] # "check") =>
                /\ step'[t] = "close"
                /\ pending'[t] \in {TabClosed(endpoint[t]), Cancelled}
                /\ fault'[t] = NoFault
                /\ url'[t] = request[t].url /\ named' = named]_vars
    /\ [][\A t \in Tasks : step[t] = "close" => step'[t] \in {"close", "done"}]_vars
    /\ [](\A t \in Tasks :
            (Ended(t) /\ pending[t] = TabClosed(endpoint[t])) =>
                /\ response[t] = TabClosed(endpoint[t])
                /\ IsError(response[t])
                /\ url[t] = request[t].url)
    /\ [][\A t \in Tasks :
            (/\ step[t] = "act" /\ endpoint[t] = "/fetch" /\ step'[t] = "close"
             /\ fault'[t] = NoFault /\ pending'[t] # Cancelled) =>
                /\ pages[tab[t]] = "open"
                /\ pending'[t].html \in Htmls
                /\ pending'[t] = [status_code |-> 200, url |-> url'[t],
                                  html |-> pending'[t].html]]_vars
    /\ [](\A t \in Tasks :
            (Ended(t) /\ endpoint[t] = "/fetch" /\ IsSuccess(response[t])) =>
                response[t] = pending[t] /\ response[t].url = url[t])

\* one task has returned the "Tab was closed" error for a page that was
\* closed during the readiness phase; a fetch has returned a location that
\* is not the URL it was asked for
C34_Witness ==
    \E t, o \in Tasks :
        /\ t # o
        /\ Ended(t) /\ response[t] = TabClosed(endpoint[t])
        /\ Ended(o) /\ endpoint[o] = "/fetch" /\ IsSuccess(response[o])
        /\ response[o].url # request[o].url

\* a result that holds screenshot data
HasData(shot) == shot.screenshots.has /\ shot.screenshots.value # <<>>

\* C35: the response of a screenshot dispatch holds one entry per result of
\* the reply, in the order of the reply: the url and error of a result that
\* has an error, "Failed to process screenshot" for a result without
\* screenshot data, and the url and file of the image otherwise.
C35_OneEntryPerResult ==
    shot_response # NotProcessed =>
        /\ DOMAIN shot_response = {"screenshots"}
        /\ Len(shot_response.screenshots) = Len(shot_reply)
        /\ \A i \in 1 .. Len(shot_reply) :
              LET shot == shot_reply[i]
                  entry == shot_response.screenshots[i]
              IN /\ entry.url = shot.url.value
                 /\ shot.error.has =>
                       entry = [url |-> shot.url.value, error |-> shot.error.value]
                 /\ (~shot.error.has /\ ~HasData(shot)) =>
                       entry = [url |-> shot.url.value,
                                error |-> <<"Failed to process screenshot">>]
                 /\ (~shot.error.has /\ HasData(shot)) =>
                       "filename" \in DOMAIN entry

\* the extractors that return a result for the page, and their variations
Yielding == {e \in Extractors : IsResult(outcomes[e])}
Count(e) == Len(outcomes[e].variations)
Best ==
    IF Yielding = {} THEN 0
    ELSE CHOOSE n \in {Count(e) : e \in Yielding} :
            \A e \in Yielding : Count(e) <= n
\* the earliest of the extractors with the most variations
Winner ==
    CHOOSE e \in Yielding :
        /\ Count(e) = Best
        /\ \A d \in Yielding : Count(d) = Best => e <= d

RECURSIVE InOrder(_)
InOrder(S) ==
    IF S = {} THEN <<>>
    ELSE LET first == CHOOSE x \in S : \A y \in S : x <= y
         IN <<first>> \o InOrder(S \ {first})

TypeOK ==
    /\ Range(client_list) \subseteq Socks
    /\ DOMAIN response_queues \subseteq IdSpace
    /\ response_lock \in {Free} \cup Jobs \cup {HandlerOf(s) : s \in Socks}
    /\ \A i \in DOMAIN response_queues :
          /\ response_queues[i].owner \in Jobs
          /\ Len(response_queues[i].items) <= MaxReplies
    /\ uuid_count \in 0 .. MaxJobs
    /\ pc \in [Jobs -> {"idle", "send", "wait", "done"}]
    /\ \A j \in Jobs : elapsed[j] \in 0 .. WaitTicks
====
